---- MODULE Spec2Model ----
(***************************************************************************)
(* Identical code folding (src/icf.cc, icf_sections) as a state machine.   *)
(*                                                                         *)
(* The input object graph (files, sections, relocations, FDEs, symbols) is *)
(* drawn in Init.  Every parallel region of icf_sections is a phase (pc);  *)
(* regions whose workers race on shared memory (the leaf map, the symbol   *)
(* table) have one action per worker step, regions whose workers write     *)
(* disjoint locations are one action.                                      *)
(*                                                                         *)
(* SHA-256 is modelled as a collision-free hash: two digests are equal iff *)
(* the hashed byte strings are equal.  A digest is represented by          *)
(* 1 + the least icf_idx whose hashed string is the same; 0 is the         *)
(* zero-filled digest of a freshly resized vector.  The numeric order of   *)
(* digest values, which only the sort of the class committer reads, is an  *)
(* arbitrary permutation chosen there.                                     *)
(***************************************************************************)
EXTENDS Integers, Sequences, FiniteSets, TLC

\* ---------------------------------------------------------------- bounds
NumFiles == 3
NumSecs == 4
ChainLen == 13
MaxRounds == 45

\* ------------------------------------------------------ program constants
CheckInterval == 10
FdeHeaderLen == 8

NULL == 0

Files == 1..NumFiles

\* out::objs[f]->sections: slot s lives in file FileOf(s) at index SectionIdx(s)
FileOf(s) == ((s - 1) % NumFiles) + 1
SectionIdx(s) == (s - 1) \div NumFiles

\* ------------------------------------------------------------ the symbols
\* Symbol s (s a slot) is the symbol defined by slot s; SymFrag resolves to a
\* merged-section fragment; SymAlias is a second symbol of slot 1.
SymFrag == -1
SymAlias == -2

\* The ring of the n slots of an input
NextSlot(s, n) == (s % n) + 1
PrevSlot(s, n) == ((s + n - 2) % n) + 1

\* ------------------------------------------------------ the input sections
ContentsA == <<144, 195>>
ContentsB == <<195>>
FragData == <<104, 105>>

TextFlags == {"SHF_ALLOC", "SHF_EXECINSTR"}
DataFlags == {"SHF_ALLOC", "SHF_WRITE"}

Rela(sym, addend) ==
  [r_offset |-> 0, r_type |-> 2, r_addend |-> addend, r_sym |-> sym]
EhRel(sym) == [sym |-> sym, type |-> 2, offset |-> 8, addend |-> 0]
\* An FDE record: 4 bytes of length, 4 bytes of CIE offset, then the tail.
FdeContents(cie, tail) == <<12, 0, 0, 0, cie, 0, 0, 0>> \o tail
Fde(cie, tail, rels) == [contents |-> FdeContents(cie, tail), rels |-> rels]

Sect(flags, type, name, contents, fdes, rels, hasfrag, relfrags, named) ==
  [present |-> TRUE, sh_flags |-> flags, sh_type |-> type, name |-> name,
   contents |-> contents, fdes |-> fdes, rels |-> rels,
   has_fragments |-> hasfrag, rel_fragments |-> relfrags, named |-> named]

NoSection ==
  [present |-> FALSE, sh_flags |-> {}, sh_type |-> "SHT_NULL", name |-> "",
   contents |-> <<>>, fdes |-> <<>>, rels |-> <<>>,
   has_fragments |-> <<>>, rel_fragments |-> <<>>, named |-> FALSE]

Text(contents, fdes, rels) ==
  Sect(TextFlags, "SHT_PROGBITS", ".text", contents, fdes, rels,
       [k \in 1..Len(rels) |-> FALSE], <<>>, TRUE)

\* The section a shape name stands for when it sits in slot s of n.
Shape(sh, s, n) ==
  CASE sh = "none" -> NoSection
    [] sh = "data" ->
         Sect(DataFlags, "SHT_PROGBITS", ".data", ContentsA, <<>>, <<>>,
              <<>>, <<>>, TRUE)
    [] sh = "leafA" -> Text(ContentsA, <<>>, <<>>)
    [] sh = "leafAnon" ->
         Sect(TextFlags, "SHT_PROGBITS", ".text", ContentsA, <<>>, <<>>,
              <<>>, <<>>, FALSE)
    [] sh = "leafF" -> Text(ContentsA, <<Fde(s, <<1>>, <<EhRel(s)>>)>>, <<>>)
    [] sh = "next" -> Text(ContentsA, <<>>, <<Rela(NextSlot(s, n), 0)>>)
    [] sh = "prev" -> Text(ContentsA, <<>>, <<Rela(PrevSlot(s, n), 0)>>)
    [] sh = "np" ->
         Text(ContentsA, <<>>, <<Rela(NextSlot(s, n), 0), Rela(PrevSlot(s, n), 0)>>)
    [] sh = "pn" ->
         Text(ContentsA, <<>>, <<Rela(PrevSlot(s, n), 0), Rela(NextSlot(s, n), 0)>>)
    [] sh = "nextB" -> Text(ContentsB, <<>>, <<Rela(NextSlot(s, n), 0)>>)
    [] sh = "nextAdd" -> Text(ContentsA, <<>>, <<Rela(NextSlot(s, n), 4)>>)
    [] sh = "relfrag" ->
         Sect(TextFlags, "SHT_PROGBITS", ".text", ContentsA, <<>>,
              <<Rela(NextSlot(s, n), 0), Rela(SymFrag, 0)>>, <<TRUE, FALSE>>,
              <<[addend |-> 0, data |-> FragData]>>, TRUE)
    [] sh = "fde2" ->
         Text(ContentsA,
              <<Fde(s, <<1>>, <<EhRel(s), EhRel(NextSlot(s, n))>>)>>, <<>>)
    [] sh = "leafB" -> Text(ContentsB, <<>>, <<>>)
    [] sh = "loop" -> Text(ContentsB, <<>>, <<Rela(s, 0)>>)
    [] sh = "ab" -> Text(ContentsA, <<>>, <<Rela(1, 0), Rela(2, 0)>>)
    [] sh = "ba" -> Text(ContentsA, <<>>, <<Rela(2, 0), Rela(1, 0)>>)

\* The inputs: every slot takes a shape of one family; in the leaf family
\* file 1 is an archive member (main.cc gives archive members the later
\* priorities, so priority order and file order differ there).
LeafShapes == {"none", "leafA", "leafAnon", "leafF", "next"}
GraphShapes == {"data", "next", "prev", "np", "pn"}
RelocShapes == {"next", "nextB", "nextAdd", "relfrag", "fde2"}

FamilyInputs(fam, archive) ==
  {[secs |-> [s \in 1..NumSecs |-> Shape(sh[s], s, NumSecs)],
    archive |-> archive] : sh \in [1..NumSecs -> fam]}

\* A ring of ChainLen participants, all alike but the last: the partition
\* needs ChainLen - 2 rounds to separate them all.
ChainInput ==
  [secs |-> [s \in 1..ChainLen |->
               Shape(IF s = ChainLen THEN "nextB" ELSE "next", s, ChainLen)],
   archive |-> {}]

\* Two targets (slots 1 and 2) and NumSecs - 1 sections that name both, in
\* one order or the other.
TargetShapes == {"leafA", "leafB", "loop", "data"}
OrderShapes == {"ab", "ba"}
OrderInputs ==
  {[secs |-> [s \in 1..(NumSecs + 1) |->
                Shape(IF s <= 2 THEN tg[s] ELSE sh[s], s, NumSecs + 1)],
    archive |-> {}] :
     tg \in [1..2 -> TargetShapes], sh \in [3..(NumSecs + 1) -> OrderShapes]}

Inputs ==
  FamilyInputs(LeafShapes, {1}) \cup FamilyInputs(GraphShapes, {}) \cup
  FamilyInputs(RelocShapes, {}) \cup {ChainInput}

\* The inputs of the specification that runs every propagation worker as a
\* step of its own.
WorkerShapes == {"leafA", "next", "np"}
WorkerInputs == FamilyInputs(WorkerShapes, {1})

VARIABLES
  isecs,          \* the input sections, by slot (immutable after Init)
  in_archive,     \* the files that are archive members (immutable)
  print_icf_sections,   \* config.print_icf_sections (immutable)
  sym_isec,       \* Symbol::input_section, by symbol (NULL: none)
  icf_eligible, icf_leaf, icf_idx, leader, is_dead,   \* InputSection fields
  pc,             \* the region of icf_sections being executed
  map,            \* the leaf map: key slot -> representative (NULL: no key)
  pos, pend,      \* leaf workers: index into the file's sections, pending write
  sections,       \* std::vector<InputSection *> sections (0-based)
  digests, slot, num_classes, round,
  edges, edge_indices,
  redirected,     \* files whose symbol-redirection worker has redirected
  report,         \* what print_icf_sections printed (<<>>: nothing)
  first,          \* the graph the first run left, once a second run has begun
  pw,             \* the workers of the current propagation round
  rdone, rpend    \* redirection workers: symbols done, pending write

input_vars == <<isecs, in_archive, print_icf_sections>>
sec_vars == <<icf_eligible, icf_leaf, icf_idx, leader, is_dead>>
leaf_vars == <<map, pos, pend>>
prop_vars == <<sections, digests, slot, num_classes, round, edges, edge_indices>>
redir_vars == <<rdone, rpend>>
more_vars == <<report, first, pw, redir_vars>>
vars == <<input_vars, sym_isec, sec_vars, pc, leaf_vars, prop_vars, redirected,
          more_vars>>

Slots == DOMAIN isecs
SymIds == Slots \cup {SymFrag, SymAlias}

FileSlots(f) == {s \in Slots : FileOf(s) = f}
FileSections(f) ==
  [k \in 1..Cardinality(FileSlots(f)) |-> (k - 1) * NumFiles + f]

\* file->sections[k] of slot s is not null: the section exists and has not
\* been killed.
InFile(s) == isecs[s].present /\ ~is_dead[s]

\* ------------------------------------------------------- symbols (input)
\* Symbol::frag
SymFragData(y) == IF y = SymFrag THEN FragData ELSE <<>>
HasFrag(y) == y = SymFrag
\* Symbol::value
SymValue(y) == IF y = SymAlias THEN 1 ELSE 0
\* Symbol::input_section as the front end resolved it
SymSection(secs, y) ==
  IF y \in DOMAIN secs
    THEN (IF secs[y].present /\ secs[y].named THEN y ELSE NULL)
    ELSE IF y = SymAlias
      THEN (IF secs[1].present /\ secs[1].named THEN 1 ELSE NULL)
      ELSE NULL

\* The symbols a section's relocations and FDE relocations name.
RelSyms(sec) ==
  {sec.rels[k].r_sym : k \in 1..Len(sec.rels)} \cup
  UNION {{sec.fdes[k].rels[j].sym : j \in 1..Len(sec.fdes[k].rels)} :
         k \in 1..Len(sec.fdes)}

\* file->symbols: the symbols the file defines or names, as a set
FileSymbolSet(f) ==
  FileSlots(f) \cup (IF f = FileOf(1) THEN {SymAlias} ELSE {}) \cup
  UNION {RelSyms(isecs[s]) : s \in FileSlots(f)}

\* ------------------------------------------------------------- priorities
\* main.cc: files[i]->priority = is_in_archive() ? i + (1 << 31) : i, kept as
\* the order-isomorphic pair (archive bit, i) scaled into a small integer.
FilePriority(f) == (IF f \in in_archive THEN NumFiles ELSE 0) + (f - 1)
\* InputSection::get_priority: (file->priority << 32) | section_idx
get_priority(s) == FilePriority(FileOf(s)) * Cardinality(Slots) + SectionIdx(s)

\* ------------------------------------------------------------ eligibility
is_c_identifier(name) == name \in {"foo"}

is_eligible(s) ==
  LET isec == isecs[s]
      is_alloc == "SHF_ALLOC" \in isec.sh_flags
      is_executable == "SHF_EXECINSTR" \in isec.sh_flags
      is_writable == "SHF_WRITE" \in isec.sh_flags
      is_bss == isec.sh_type = "SHT_NOBITS"
      is_init == isec.sh_type = "SHT_INIT_ARRAY" \/ isec.name = ".init"
      is_fini == isec.sh_type = "SHT_FINI_ARRAY" \/ isec.name = ".fini"
      is_enumerable == is_c_identifier(isec.name)
  IN is_alloc /\ is_executable /\ ~is_writable /\ ~is_bss /\
     ~is_init /\ ~is_fini /\ ~is_enumerable

is_leaf(s) ==
  /\ isecs[s].rels = <<>>
  /\ \A k \in 1..Len(isecs[s].fdes) : Len(isecs[s].fdes[k].rels) <= 1

\* std::string_view::substr(8) of an FDE's contents
FdeTail(fde) == SubSeq(fde.contents, FdeHeaderLen + 1, Len(fde.contents))

\* LeafEq comparing the whole contents of the FDEs, their first 8 bytes
\* included.
LeafEq_WholeFde(a, b) ==
  /\ isecs[a].contents = isecs[b].contents
  /\ Len(isecs[a].fdes) = Len(isecs[b].fdes)
  /\ \A i \in 1..Len(isecs[a].fdes) :
       isecs[a].fdes[i].contents = isecs[b].fdes[i].contents

LeafEq(a, b) ==
  /\ isecs[a].contents = isecs[b].contents
  /\ Len(isecs[a].fdes) = Len(isecs[b].fdes)
  /\ \A i \in 1..Len(isecs[a].fdes) :
       /\ Len(isecs[a].fdes[i].contents) = Len(isecs[b].fdes[i].contents)
       /\ FdeTail(isecs[a].fdes[i]) = FdeTail(isecs[b].fdes[i])

\* ------------------------------------------------------------------- Init
\* The state when icf_sections is entered, on one of `inputs` and with
\* config.print_icf_sections one of `flags`.
InitPrinting(inputs, flags) ==
  /\ \E in \in inputs : isecs = in.secs /\ in_archive = in.archive
  /\ print_icf_sections \in flags
  /\ sym_isec = [y \in SymIds |-> SymSection(isecs, y)]
  /\ icf_eligible = [s \in Slots |-> FALSE]
  /\ icf_leaf = [s \in Slots |-> FALSE]
  /\ icf_idx = [s \in Slots |-> 0]
  /\ leader = [s \in Slots |-> NULL]
  /\ is_dead = [s \in Slots |-> FALSE]
  /\ pc = "leaf"
  /\ map = [s \in Slots |-> NULL]
  /\ pos = [f \in Files |-> 1]
  /\ pend = [f \in Files |-> NULL]
  /\ sections = <<>>
  /\ digests = <<<<>>, <<>>>>
  /\ slot = 0
  /\ num_classes = -1
  /\ round = 0
  /\ edges = <<>>
  /\ edge_indices = <<>>
  /\ redirected = {}
  /\ report = <<>>
  /\ first = <<>>
  /\ pw = [done |-> {}, read |-> {}, written |-> {}]
  /\ rdone = [f \in Files |-> {}]
  /\ rpend = [f \in Files |-> <<>>]

InitWith(inputs) == InitPrinting(inputs, {FALSE})

Init == InitWith(Inputs)

\* ------------------------------------------------------- the leaf deduper
\* map.find(isec) / the entry map.insert found: the key equal to s
MapKey(s) == CHOOSE k \in Slots : map[k] # NULL /\ LeafEq(k, s)
MapHas(s) == \E k \in Slots : map[k] # NULL /\ LeafEq(k, s)

\* One iteration of the first loop of worker f, up to its last access to the
\* shared map entry: classify, insert, read it->second.
LeafInsert(f) ==
  /\ pc = "leaf"
  /\ pend[f] = NULL
  /\ pos[f] <= Len(FileSections(f))
  /\ LET s == FileSections(f)[pos[f]] IN
       IF ~InFile(s) \/ ~is_eligible(s)
         THEN /\ pos' = [pos EXCEPT ![f] = @ + 1]
              /\ UNCHANGED <<icf_leaf, icf_eligible, map, pend>>
       ELSE IF is_leaf(s)
         THEN /\ icf_leaf' = [icf_leaf EXCEPT ![s] = TRUE]
              /\ UNCHANGED icf_eligible
              /\ IF ~MapHas(s)
                   THEN /\ map' = [map EXCEPT ![s] = s]
                        /\ pos' = [pos EXCEPT ![f] = @ + 1]
                        /\ UNCHANGED pend
                 ELSE IF get_priority(s) < get_priority(map[MapKey(s)])
                   THEN /\ pend' = [pend EXCEPT ![f] = s]
                        /\ UNCHANGED <<map, pos>>
                   ELSE /\ pos' = [pos EXCEPT ![f] = @ + 1]
                        /\ UNCHANGED <<map, pend>>
       ELSE /\ icf_eligible' = [icf_eligible EXCEPT ![s] = TRUE]
            /\ pos' = [pos EXCEPT ![f] = @ + 1]
            /\ UNCHANGED <<icf_leaf, map, pend>>
  /\ UNCHANGED <<input_vars, sym_isec, icf_idx, leader, is_dead, pc,
                 prop_vars, redirected,
                 more_vars>>

\* it->second = isec, after the comparison has been made
LeafWrite(f) ==
  /\ pc = "leaf"
  /\ pend[f] # NULL
  /\ map' = [map EXCEPT ![MapKey(pend[f])] = pend[f]]
  /\ pend' = [pend EXCEPT ![f] = NULL]
  /\ pos' = [pos EXCEPT ![f] = @ + 1]
  /\ UNCHANGED <<input_vars, sym_isec, sec_vars, pc, prop_vars, redirected,
                 more_vars>>

LeafDone == \A f \in Files : pos[f] > Len(FileSections(f)) /\ pend[f] = NULL

\* The second parallel loop: every leaf takes the representative of its entry.
LeafAssign ==
  /\ pc = "leaf"
  /\ LeafDone
  /\ leader' = [s \in Slots |->
                  IF InFile(s) /\ icf_leaf[s] THEN map[MapKey(s)]
                  ELSE leader[s]]
  /\ pc' = "gather_sections"
  /\ UNCHANGED <<input_vars, sym_isec, icf_eligible, icf_leaf, icf_idx,
                 is_dead, leaf_vars, prop_vars, redirected,
                 more_vars>>

\* --------------------------------------------------- the section enumerator
\* num_sections[f]
NumSections(f) == Cardinality({s \in FileSlots(f) : InFile(s) /\ icf_eligible[s]})
\* section_indices[f]: the prefix sums of num_sections
RECURSIVE SectionIndices(_)
SectionIndices(f) ==
  IF f = 1 THEN 0 ELSE SectionIndices(f - 1) + NumSections(f - 1)

\* The eligible sections of file f before slot s, i.e. idx - section_indices[f]
\* when the fill loop reaches s.
RankInFile(s) ==
  Cardinality({t \in FileSlots(FileOf(s)) :
                 t < s /\ InFile(t) /\ icf_eligible[t]})

GatheredSections ==
  LET n == SectionIndices(NumFiles) + NumSections(NumFiles)
      at(i) == CHOOSE s \in Slots :
                 /\ InFile(s) /\ icf_eligible[s]
                 /\ SectionIndices(FileOf(s)) + RankInFile(s) = i
  IN [i \in 0..(n - 1) |-> at(i)]

gather_sections ==
  /\ pc = "gather_sections"
  /\ sections' = GatheredSections
  /\ icf_idx' = [s \in Slots |->
                   IF \E i \in DOMAIN GatheredSections : GatheredSections[i] = s
                     THEN CHOOSE i \in DOMAIN GatheredSections :
                            GatheredSections[i] = s
                     ELSE icf_idx[s]]
  /\ pc' = "compute_digests"
  /\ UNCHANGED <<input_vars, sym_isec, icf_eligible, icf_leaf, leader, is_dead,
                 leaf_vars, digests, slot, num_classes, round, edges,
                 edge_indices, redirected,
                 more_vars>>

N == Cardinality(DOMAIN sections)

\* ------------------------------------------------------ the initial digester
hash_string(str) == <<Len(str), str>>

\* hash_symbol: <<tag, payload>> followed by sym.value
hash_symbol(y) ==
  LET isec == sym_isec[y] IN
    IF HasFrag(y) THEN <<2, hash_string(SymFragData(y)), SymValue(y)>>
    ELSE IF isec = NULL THEN <<3, <<>>, SymValue(y)>>
    ELSE IF leader[isec] # NULL
      THEN <<4, <<get_priority(leader[isec])>>, SymValue(y)>>
    ELSE IF icf_eligible[isec] THEN <<5, <<>>, SymValue(y)>>
    ELSE <<6, <<get_priority(isec)>>, SymValue(y)>>

\* ref_idx when the relocation loop reaches relocation i
RefIdx(isec, i) == 1 + Cardinality({j \in 1..(i - 1) : isec.has_fragments[j]})

\* DigestInput hashing the relocations of the section in a canonical order
\* (as a set) instead of in relocation order.
DigestInput_AnyOrder(s) ==
  LET isec == isecs[s] IN
    << hash_string(isec.contents),
       isec.sh_flags,
       Len(isec.fdes),
       Len(isec.rels),
       [k \in 1..Len(isec.fdes) |->
          LET fde == isec.fdes[k] IN
            << hash_string(FdeTail(fde)),
               Len(fde.rels),
               [j \in 1..(Len(fde.rels) - 1) |->
                  LET rel == fde.rels[j + 1] IN
                    <<hash_symbol(rel.sym), rel.type, rel.offset, rel.addend>>] >>],
       {LET rel == isec.rels[i] IN
          << rel.r_offset, rel.r_type, rel.r_addend,
             IF isec.has_fragments[i]
               THEN LET ref == isec.rel_fragments[RefIdx(isec, i)]
                    IN <<1, ref.addend, hash_string(ref.data)>>
               ELSE hash_symbol(rel.r_sym) >> : i \in 1..Len(isec.rels)} >>

\* DigestInput without the hash_i64(rel.r_addend) of the relocation loop.
DigestInput_NoAddend(s) ==
  LET isec == isecs[s] IN
    << hash_string(isec.contents),
       isec.sh_flags,
       Len(isec.fdes),
       Len(isec.rels),
       [k \in 1..Len(isec.fdes) |->
          LET fde == isec.fdes[k] IN
            << hash_string(FdeTail(fde)),
               Len(fde.rels),
               [j \in 1..(Len(fde.rels) - 1) |->
                  LET rel == fde.rels[j + 1] IN
                    <<hash_symbol(rel.sym), rel.type, rel.offset, rel.addend>>] >>],
       [i \in 1..Len(isec.rels) |->
          LET rel == isec.rels[i] IN
            << rel.r_offset, rel.r_type,
               IF isec.has_fragments[i]
                 THEN LET ref == isec.rel_fragments[RefIdx(isec, i)]
                      IN <<1, ref.addend, hash_string(ref.data)>>
                 ELSE hash_symbol(rel.r_sym) >>] >>

\* Everything compute_digest feeds to SHA-256 for slot s, in order.
DigestInput(s) ==
  LET isec == isecs[s] IN
    << hash_string(isec.contents),
       isec.sh_flags,
       Len(isec.fdes),
       Len(isec.rels),
       [k \in 1..Len(isec.fdes) |->
          LET fde == isec.fdes[k] IN
            << hash_string(FdeTail(fde)),
               Len(fde.rels),
               [j \in 1..(Len(fde.rels) - 1) |->
                  LET rel == fde.rels[j + 1] IN
                    <<hash_symbol(rel.sym), rel.type, rel.offset, rel.addend>>] >>],
       [i \in 1..Len(isec.rels) |->
          LET rel == isec.rels[i] IN
            << rel.r_offset, rel.r_type, rel.r_addend,
               IF isec.has_fragments[i]
                 THEN LET ref == isec.rel_fragments[RefIdx(isec, i)]
                      IN <<1, ref.addend, hash_string(ref.data)>>
                 ELSE hash_symbol(rel.r_sym) >>] >>

\* digest_final under a collision-free hash: the digest of input[i], named by
\* the least index hashing the same string.
digest_final(input, i) ==
  1 + (CHOOSE j \in DOMAIN input :
         /\ input[j] = input[i]
         /\ \A k \in DOMAIN input : input[k] = input[i] => j <= k)

compute_digest(s) == DigestInput(s)

ComputedDigests ==
  LET input == [i \in DOMAIN sections |-> compute_digest(sections[i])]
  IN [i \in DOMAIN sections |-> digest_final(input, i)]

compute_digests ==
  /\ pc = "compute_digests"
  /\ digests' = <<ComputedDigests, [i \in DOMAIN sections |-> 0]>>
  /\ pc' = "gather_edges"
  /\ UNCHANGED <<input_vars, sym_isec, sec_vars, leaf_vars, sections, slot,
                 num_classes, round, edges, edge_indices, redirected,
                 more_vars>>

\* ------------------------------------------------------------ edge builder
\* The relocations of slot s that make an edge, in relocation order.
EdgeRels(s) ==
  LET isec == isecs[s] IN
    {j \in 1..Len(isec.rels) :
       /\ ~isec.has_fragments[j]
       /\ LET y == isec.rels[j].r_sym IN
            /\ ~HasFrag(y)
            /\ sym_isec[y] # NULL
            /\ icf_eligible[sym_isec[y]]}

\* num_edges[i]
NumEdges(i) == Cardinality(EdgeRels(sections[i]))

\* edge_indices[i] as the prefix-sum loop leaves it
RECURSIVE EdgeIndex(_)
EdgeIndex(i) == IF i = 0 THEN 0 ELSE EdgeIndex(i - 1) + NumEdges(i - 1)

GatheredEdges ==
  LET total == EdgeIndex(N - 1) + NumEdges(N - 1)
      \* the source i and the relocation j that fill edges[e]
      src(e) == CHOOSE i \in DOMAIN sections :
                  EdgeIndex(i) <= e /\ e < EdgeIndex(i) + NumEdges(i)
      rel(e) == LET i == src(e) IN
                  CHOOSE j \in EdgeRels(sections[i]) :
                    Cardinality({k \in EdgeRels(sections[i]) : k < j})
                      = e - EdgeIndex(i)
  IN [e \in 0..(total - 1) |->
        icf_idx[sym_isec[isecs[sections[src(e)]].rels[rel(e)].r_sym]]]

gather_edges ==
  /\ pc = "gather_edges"
  /\ N > 0
  /\ edge_indices' = [i \in DOMAIN sections |-> EdgeIndex(i)]
  /\ edges' = GatheredEdges
  /\ pc' = "propagate"
  /\ UNCHANGED <<input_vars, sym_isec, sec_vars, leaf_vars, sections, digests,
                 slot, num_classes, round, redirected,
                 more_vars>>

\* With no participant, num_edges.size() - 1 wraps to 2^64 - 1 and the
\* prefix-sum loop indexes two empty vectors: undefined behaviour, the run
\* does not continue.
gather_edges_empty ==
  /\ pc = "gather_edges"
  /\ N = 0
  /\ pc' = "ub"
  /\ UNCHANGED <<input_vars, sym_isec, sec_vars, leaf_vars, prop_vars,
                 redirected,
                 more_vars>>

\* --------------------------------------------------------------- propagator
\* PropagateInput hashing the neighbours' digests as a set, not in edge order.
PropagateInput_Unordered(cur, i) ==
  LET begin == edge_indices[i]
      end == IF i + 1 = N THEN Cardinality(DOMAIN edges) ELSE edge_indices[i + 1]
  IN << cur[i], {cur[edges[j]] : j \in begin..(end - 1)} >>

\* PropagateInput without the section's own digest.
PropagateInput_NoSelf(cur, i) ==
  LET begin == edge_indices[i]
      end == IF i + 1 = N THEN Cardinality(DOMAIN edges) ELSE edge_indices[i + 1]
  IN << 0, [j \in 1..(end - begin) |-> cur[edges[begin + j - 1]]] >>

\* What one worker of propagate hashes for index i, reading slot `cur`.
PropagateInput(cur, i) ==
  LET begin == edge_indices[i]
      end == IF i + 1 = N THEN Cardinality(DOMAIN edges) ELSE edge_indices[i + 1]
  IN << cur[i], [j \in 1..(end - begin) |-> cur[edges[begin + j - 1]]] >>

propagate(cur) ==
  LET input == [i \in DOMAIN cur |-> PropagateInput(cur, i)]
  IN [i \in DOMAIN cur |-> digest_final(input, i)]

\* std::sort of a vector of digests (0-based)
SortedDigests(d) ==
  [k \in DOMAIN d |->
     CHOOSE v \in {d[i] : i \in DOMAIN d} :
       /\ Cardinality({i \in DOMAIN d : d[i] < v}) <= k
       /\ k < Cardinality({i \in DOMAIN d : d[i] <= v})]

\* count_num_classes whose accumulator is not reset between calls: the count
\* comes on top of the previous result.
count_num_classes_Accumulating(d) ==
  LET vec == SortedDigests(d)
      size == Cardinality(DOMAIN d)
  IN num_classes + 1 + Cardinality({i \in 0..(size - 2) : vec[i] # vec[i + 1]})

count_num_classes(d) ==
  LET vec == SortedDigests(d)
      size == Cardinality(DOMAIN d)
  IN Cardinality({i \in 0..(size - 2) : vec[i] # vec[i + 1]})

\* The exit test that takes the class count as at least the kept one (>=)
\* instead of equal to it.
Converged_NotFewer(n, kept) == n >= kept

\* n == num_classes
Converged(n, kept) == n = kept

\* The end of an iteration of the loop, `next` being the vector the round
\* wrote: the slot flip and, every CheckInterval rounds, the convergence
\* check.
EndRound(next) ==
  LET n == count_num_classes(next)
  IN /\ slot' = 1 - slot
     /\ IF round % CheckInterval = CheckInterval - 1
          THEN IF Converged(n, num_classes)
                 THEN /\ pc' = "commit"
                      /\ UNCHANGED <<num_classes, round>>
                 ELSE /\ num_classes' = n
                      /\ round' = round + 1
                      /\ UNCHANGED pc
          ELSE /\ round' = round + 1
               /\ UNCHANGED <<pc, num_classes>>

\* One iteration of the propagation loop: a round (all its workers), the
\* slot flip and the convergence check.
PropagateRound ==
  /\ pc = "propagate"
  /\ round < MaxRounds
  /\ LET next == propagate(digests[slot + 1])
     IN /\ digests' = [digests EXCEPT ![(1 - slot) + 1] = next]
        /\ EndRound(next)
  /\ UNCHANGED <<input_vars, sym_isec, sec_vars, leaf_vars, sections, edges,
                 edge_indices, redirected, more_vars>>

\* The elements of digests worker i reads, as <<slot, index>>.
WorkerReads(i) ==
  LET begin == edge_indices[i]
      end == IF i + 1 = N THEN Cardinality(DOMAIN edges) ELSE edge_indices[i + 1]
  IN {<<slot, i>>} \cup {<<slot, edges[j]>> : j \in begin..(end - 1)}

\* The worker that writes its digest over the one it read (digests[slot][i]).
PropagateWorker_InPlace(i) ==
  /\ pc = "propagate"
  /\ round < MaxRounds
  /\ i \in DOMAIN sections \ pw.done
  /\ digests' = [digests EXCEPT ![slot + 1][i] = propagate(digests[slot + 1])[i]]
  /\ pw' = [done |-> pw.done \cup {i},
            read |-> pw.read \cup WorkerReads(i),
            written |-> pw.written \cup {<<slot, i>>}]
  /\ UNCHANGED <<input_vars, sym_isec, sec_vars, pc, leaf_vars, sections, slot,
                 num_classes, round, edges, edge_indices, redirected, report,
                 first, redir_vars>>

\* The worker of index i in a round of propagate, as a step of its own.
PropagateWorker(i) ==
  /\ pc = "propagate"
  /\ round < MaxRounds
  /\ i \in DOMAIN sections \ pw.done
  /\ digests' = [digests EXCEPT
                   ![(1 - slot) + 1][i] = propagate(digests[slot + 1])[i]]
  /\ pw' = [done |-> pw.done \cup {i},
            read |-> pw.read \cup WorkerReads(i),
            written |-> pw.written \cup {<<1 - slot, i>>}]
  /\ UNCHANGED <<input_vars, sym_isec, sec_vars, pc, leaf_vars, sections, slot,
                 num_classes, round, edges, edge_indices, redirected, report,
                 first, redir_vars>>

\* The join of the round's workers, then the slot flip and the check.
PropagateJoin ==
  /\ pc = "propagate"
  /\ round < MaxRounds
  /\ pw.done = DOMAIN sections
  /\ EndRound(digests[(1 - slot) + 1])
  /\ pw' = [done |-> {}, read |-> {}, written |-> {}]
  /\ UNCHANGED <<input_vars, sym_isec, sec_vars, leaf_vars, sections, digests,
                 edges, edge_indices, redirected, report, first, redir_vars>>

\* ----------------------------------------------------------- class committer
\* The numeric order of the digest values.  The scan below depends on it only
\* through which class sorts last, and under the rotations every class does.
HashOrders ==
  {[d \in 1..N |-> ((d + c) % N) + 1] : c \in 0..(N - 1)}

\* The sorted vector is local to the committer and dead after its scan, so
\* the state keeps `sections` in icf_idx order.
\* The comparator of the final sort: hash value (ord) of the digest, then
\* priority.
SortsBefore(ord, digest, a, b) ==
  IF digest[icf_idx[a]] # digest[icf_idx[b]]
    THEN ord[digest[icf_idx[a]]] < ord[digest[icf_idx[b]]]
    ELSE get_priority(a) < get_priority(b)

SortedSections(ord, digest) ==
  [k \in DOMAIN sections |->
     CHOOSE a \in {sections[i] : i \in DOMAIN sections} :
       Cardinality({b \in {sections[i] : i \in DOMAIN sections} :
                      SortsBefore(ord, digest, b, a)}) = k]

\* The indices whose worker writes sorted[k]->leader: i ranges over
\* [0, size - 1), is a class boundary, and its while loop reaches k.
CommitWriters(sorted, digest, k) ==
  {i \in 0..(N - 2) :
     /\ i = 0 \/ digest[icf_idx[sorted[i - 1]]] # digest[icf_idx[sorted[i]]]
     /\ i <= k
     /\ \A j \in (i + 1)..k :
          digest[icf_idx[sorted[i]]] = digest[icf_idx[sorted[j]]]}

\* The scan pointing every member of a run at the element before it.
CommittedLeader_Chained(sorted, digest) ==
  [s \in Slots |->
     IF \E k \in DOMAIN sorted :
          sorted[k] = s /\ CommitWriters(sorted, digest, k) # {}
       THEN LET k == CHOOSE k \in DOMAIN sorted : sorted[k] = s
            IN IF k \in CommitWriters(sorted, digest, k)
                 THEN s ELSE sorted[k - 1]
       ELSE leader[s]]

CommittedLeader(sorted, digest) ==
  [s \in Slots |->
     IF \E k \in DOMAIN sorted :
          sorted[k] = s /\ CommitWriters(sorted, digest, k) # {}
       THEN LET k == CHOOSE k \in DOMAIN sorted : sorted[k] = s
            IN sorted[CHOOSE i \in CommitWriters(sorted, digest, k) : TRUE]
       ELSE leader[s]]

\* isec->leader && isec->leader != isec
FoldedIn(ldr, s) == s # NULL /\ ldr[s] # NULL /\ ldr[s] # s
Folded(s) == FoldedIn(leader, s)

\* The files whose worker still has a symbol to redirect. A worker that finds
\* no such symbol writes nothing.
RedirectPending(ldr, sym) ==
  {f \in Files : \E y \in FileSymbolSet(f) : FoldedIn(ldr, sym[y])}

Commit ==
  /\ pc = "commit"
  /\ \E ord \in HashOrders :
       LET digest == digests[slot + 1]
           sorted == SortedSections(ord, digest)
       IN leader' = CommittedLeader(sorted, digest)
  /\ pc' = "print"
  /\ UNCHANGED <<input_vars, sym_isec, icf_eligible, icf_leaf, icf_idx, is_dead,
                 leaf_vars, prop_vars, redirected,
                 more_vars>>

\* ------------------------------------------------------------- the reporter
\* leaders: the sections of the files that are their own leader
ReportLeaders == {l \in Slots : InFile(l) /\ leader[l] = l}
\* map.equal_range(l): the sections inserted under leader l
ReportMembers(l) ==
  {s \in Slots : InFile(s) /\ leader[s] # NULL /\ leader[s] # s /\ leader[s] = l}

\* The sum with the surviving copy counted as well (n + 1).
RECURSIVE SavedBytes_WithSurvivor(_)
SavedBytes_WithSurvivor(L) ==
  IF L = {} THEN 0
  ELSE LET l == CHOOSE x \in L : TRUE
       IN (IF ReportMembers(l) = {} THEN 0
           ELSE Len(isecs[l].contents) * (Cardinality(ReportMembers(l)) + 1))
          + SavedBytes_WithSurvivor(L \ {l})

\* saved_bytes after the loop over the leaders L
RECURSIVE SavedBytes(_)
SavedBytes(L) ==
  IF L = {} THEN 0
  ELSE LET l == CHOOSE x \in L : TRUE
       IN (IF ReportMembers(l) = {} THEN 0
           ELSE Len(isecs[l].contents) * Cardinality(ReportMembers(l)))
          + SavedBytes(L \ {l})

\* What print_icf_sections prints: the selected leaders, the removed
\* sections and the total.
Printed ==
  [selected |-> {l \in ReportLeaders : ReportMembers(l) # {}},
   removed |-> UNION {ReportMembers(l) : l \in ReportLeaders},
   saved_bytes |-> SavedBytes(ReportLeaders)]

\* if (config.print_icf_sections) print_icf_sections();
Report ==
  /\ pc = "print"
  /\ report' = IF print_icf_sections THEN <<Printed>> ELSE <<>>
  /\ pc' = IF RedirectPending(leader, sym_isec) = {} THEN "done" ELSE "redirect"
  /\ UNCHANGED <<input_vars, sym_isec, sec_vars, leaf_vars, prop_vars,
                 redirected, first, pw, redir_vars>>

\* ------------------------------------------------------- symbol redirection
\* The worker of file f: every symbol of the file whose section has another
\* leader is pointed at the leader and the section is killed.
Redirect(f) ==
  /\ pc = "redirect"
  /\ f \notin redirected
  /\ f \in RedirectPending(leader, sym_isec)
  /\ sym_isec' = [y \in SymIds |->
                    IF y \in FileSymbolSet(f) /\ Folded(sym_isec[y])
                      THEN leader[sym_isec[y]] ELSE sym_isec[y]]
  /\ is_dead' = [s \in Slots |->
                   \/ is_dead[s]
                   \/ \E y \in FileSymbolSet(f) : sym_isec[y] = s /\ Folded(s)]
  /\ redirected' = redirected \cup {f}
  /\ pc' = IF RedirectPending(leader, sym_isec') \ redirected' = {}
             THEN "done" ELSE "redirect"
  /\ UNCHANGED <<input_vars, icf_eligible, icf_leaf, icf_idx, leader,
                 leaf_vars, prop_vars, more_vars>>

\* ------------------------------------------------------------ a second run
\* icf_sections called again on the graph the first call left: the locals of
\* the function start afresh, the fields of the sections and the symbols stay.
\* The worker of file f symbol by symbol. The symbols of the file in the
\* order of file->symbols.
NextSymbol(f) ==
  CHOOSE y \in FileSymbolSet(f) \ rdone[f] :
    \A z \in FileSymbolSet(f) \ rdone[f] : y <= z

\* InputSection *isec = sym->input_section, and the test of its leader
RedirectRead(f) ==
  /\ pc = "redirect"
  /\ rpend[f] = <<>>
  /\ FileSymbolSet(f) \ rdone[f] # {}
  /\ LET y == NextSymbol(f)
         isec == sym_isec[y]
     IN IF Folded(isec)
          THEN /\ rpend' = [rpend EXCEPT ![f] = <<y, isec>>]
               /\ UNCHANGED rdone
          ELSE /\ rdone' = [rdone EXCEPT ![f] = @ \cup {y}]
               /\ UNCHANGED rpend
  /\ UNCHANGED <<input_vars, sym_isec, sec_vars, pc, leaf_vars, prop_vars,
                 redirected, report, first, pw>>

\* sym->input_section = isec->leader; isec->kill();
RedirectWrite(f) ==
  /\ pc = "redirect"
  /\ rpend[f] # <<>>
  /\ LET y == rpend[f][1]
         isec == rpend[f][2]
     IN /\ sym_isec' = [sym_isec EXCEPT ![y] = leader[isec]]
        /\ is_dead' = [is_dead EXCEPT ![isec] = TRUE]
        /\ rdone' = [rdone EXCEPT ![f] = @ \cup {y}]
  /\ rpend' = [rpend EXCEPT ![f] = <<>>]
  /\ UNCHANGED <<input_vars, icf_eligible, icf_leaf, icf_idx, leader, pc,
                 leaf_vars, prop_vars, redirected, report, first, pw>>

\* The return of parallel_for_each: every worker is through its symbols.
RedirectJoin ==
  /\ pc = "redirect"
  /\ \A f \in Files : rdone[f] = FileSymbolSet(f)
  /\ pc' = "done"
  /\ UNCHANGED <<input_vars, sym_isec, sec_vars, leaf_vars, prop_vars,
                 redirected, more_vars>>

Rerun ==
  /\ pc = "done"
  /\ first = <<>>
  /\ first' = <<[leader |-> leader, sym_isec |-> sym_isec, is_dead |-> is_dead]>>
  /\ pc' = "leaf"
  /\ map' = [s \in Slots |-> NULL]
  /\ pos' = [f \in Files |-> 1]
  /\ pend' = [f \in Files |-> NULL]
  /\ sections' = <<>>
  /\ digests' = <<<<>>, <<>>>>
  /\ slot' = 0
  /\ num_classes' = -1
  /\ round' = 0
  /\ edges' = <<>>
  /\ edge_indices' = <<>>
  /\ redirected' = {}
  /\ report' = <<>>
  /\ UNCHANGED <<input_vars, sym_isec, sec_vars, pw, redir_vars>>

Next ==
  \/ \E f \in Files : LeafInsert(f)
  \/ \E f \in Files : LeafWrite(f)
  \/ LeafAssign
  \/ gather_sections
  \/ compute_digests
  \/ gather_edges
  \/ gather_edges_empty
  \/ PropagateRound
  \/ Commit
  \/ Report
  \/ \E f \in Files : Redirect(f)

Spec == Init /\ [][Next]_vars
FairSpec == Spec /\ WF_vars(Next)

\* icf_sections run twice.
NextRerun ==
  \/ \E f \in Files : LeafInsert(f)
  \/ \E f \in Files : LeafWrite(f)
  \/ LeafAssign
  \/ gather_sections
  \/ compute_digests
  \/ gather_edges
  \/ gather_edges_empty
  \/ PropagateRound
  \/ Commit
  \/ Report
  \/ \E f \in Files : Redirect(f)
  \/ Rerun

RerunSpec == Init /\ [][NextRerun]_vars

\* icf_sections with every worker of a propagation round as a step.
NextWorker ==
  \/ \E f \in Files : LeafInsert(f)
  \/ \E f \in Files : LeafWrite(f)
  \/ LeafAssign
  \/ gather_sections
  \/ compute_digests
  \/ gather_edges
  \/ gather_edges_empty
  \/ \E i \in DOMAIN sections : PropagateWorker(i)
  \/ PropagateJoin
  \/ Commit
  \/ Report
  \/ \E f \in Files : Redirect(f)

WorkerSpec == InitWith(WorkerInputs) /\ [][NextWorker]_vars

\* The run with the symbol redirection symbol by symbol.
NextSymbols ==
  \/ \E f \in Files : LeafInsert(f)
  \/ \E f \in Files : LeafWrite(f)
  \/ LeafAssign
  \/ gather_sections
  \/ compute_digests
  \/ gather_edges
  \/ gather_edges_empty
  \/ PropagateRound
  \/ Commit
  \/ Report
  \/ \E f \in Files : RedirectRead(f)
  \/ \E f \in Files : RedirectWrite(f)
  \/ RedirectJoin

SymbolSpec == InitWith(WorkerInputs) /\ [][NextSymbols]_vars

\* The run on the leaf family alone.
LeafSpec == InitWith(FamilyInputs(LeafShapes, {1})) /\ [][Next]_vars

\* The run on the inputs that fold, with the report on or off.
FoldShapes == {"leafA", "leafAnon"}
FoldInputs == OrderInputs \cup FamilyInputs(FoldShapes, {1}) \cup {ChainInput}
FoldSpec == InitPrinting(FoldInputs, BOOLEAN) /\ [][Next]_vars

\* ================================================================ properties
Present(s) == isecs[s].present
Eligible(s) == Present(s) /\ is_eligible(s)
Leaf(s) == Eligible(s) /\ is_leaf(s)
Participant(s) == Eligible(s) /\ ~is_leaf(s)

LeafPhaseOver == pc # "leaf"
Committed == pc \in {"print", "redirect", "done"}
Finished == pc = "done"

MinPriority(S) ==
  CHOOSE m \in S : \A t \in S : get_priority(m) <= get_priority(t)

\* The leaves structurally equal to s, and the participants sharing the
\* current digest of s.
LeafGroup(s) == {t \in Slots : Leaf(t) /\ LeafEq(s, t)}
FinalDigest(s) == digests[slot + 1][icf_idx[s]]
FinalClass(s) == {t \in Slots : Participant(t) /\ FinalDigest(t) = FinalDigest(s)}

\* C1: once the leaf phase is over, the leader of every leaf is the
\* lowest-priority member of its group of structurally equal leaves, whatever
\* the interleaving of the workers' insert / compare / overwrite steps.
C1_LeafLeaderIsGroupMinimum ==
  LeafPhaseOver =>
    \A s \in Slots : Leaf(s) => leader[s] = MinPriority(LeafGroup(s))

\* C2: when icf_sections has finished, a section has a leader iff it passed
\* is_eligible; in particular every propagation participant has one.
C2_LeaderIffEligible ==
  Finished => \A s \in Slots : (leader[s] # NULL) <=> Eligible(s)

\* C3: after the class commit, in every run of equal final digests (the last
\* run included) the lowest-priority member is its own leader and the leader
\* of every other member.
C3_RunLeaderIsFirst ==
  Committed =>
    \A s \in Slots : Participant(s) => leader[s] = MinPriority(FinalClass(s))

\* The leaf map a single worker builds, after the first k sections in file
\* order: the schedule of a pool of one worker.
SeqOrder ==
  LET RECURSIVE upto(_)
      upto(f) == IF f = 0 THEN <<>> ELSE upto(f - 1) \o FileSections(f)
  IN upto(NumFiles)

RECURSIVE SeqMap(_)
SeqMap(k) ==
  IF k = 0 THEN [s \in Slots |-> NULL]
  ELSE LET m == SeqMap(k - 1)
           s == SeqOrder[k]
           keys == {t \in Slots : m[t] # NULL /\ LeafEq(t, s)}
       IN IF ~Leaf(s) THEN m
          ELSE IF keys = {} THEN [m EXCEPT ![s] = s]
          ELSE LET key == CHOOSE t \in keys : TRUE
               IN IF get_priority(s) < get_priority(m[key])
                    THEN [m EXCEPT ![key] = s] ELSE m

SeqLeafLeader(s) ==
  LET m == SeqMap(Len(SeqOrder))
  IN m[CHOOSE t \in Slots : m[t] # NULL /\ LeafEq(t, s)]

\* C4: the outcome does not depend on the worker count or the schedule: every
\* run assigns each section the leader that the run with a single worker
\* assigns.  (Participants' digests read the leaf leaders only through their
\* priorities; the schedule can reach the outcome through the leaf map alone.)
C4_SameLeadersAsOneWorker ==
  LeafPhaseOver => \A s \in Slots : Leaf(s) => leader[s] = SeqLeafLeader(s)

\* C5: when icf_sections has finished, every section with another section as
\* leader is dead, and every symbol that resolved to it resolves to its leader,
\* however many symbols resolved to it.
C5_FoldedIsDeadAndRedirected ==
  Finished =>
    \A s \in Slots : Folded(s) =>
      /\ is_dead[s]
      /\ \A y \in SymIds : SymSection(isecs, y) = s => sym_isec[y] = leader[s]

\* C6: when icf_sections has finished, the leader of every eligible section
\* is a section that is its own leader.
C6_LeaderIsSurvivor ==
  Finished =>
    \A s \in Slots : Eligible(s) =>
      leader[s] # NULL /\ leader[leader[s]] = leader[s]

\* The participants a section's edges lead to, in relocation order.
EdgeTargets(s) ==
  LET R == EdgeRels(s)
      nth(e) == CHOOSE j \in R : Cardinality({k \in R : k < j}) = e - 1
  IN [e \in 1..Cardinality(R) |-> sym_isec[isecs[s].rels[nth(e)].r_sym]]

\* s and t have equal initial digests (the hash is collision-free).
SameInitialDigest(s, t) == DigestInput(s) = DigestInput(t)

Participants == {s \in Slots : Participant(s)}

\* The unfoldings of s and t agree to depth k: equal initial digests and, edge
\* by edge in order, targets whose unfoldings agree to depth k - 1.
RECURSIVE Unfold(_, _, _)
Unfold(s, t, k) ==
  /\ SameInitialDigest(s, t)
  /\ k > 0 =>
       /\ Len(EdgeTargets(s)) = Len(EdgeTargets(t))
       /\ \A e \in 1..Len(EdgeTargets(s)) :
            Unfold(EdgeTargets(s)[e], EdgeTargets(t)[e], k - 1)

\* Agreement at every depth is agreement at depth N: a partition of N
\* elements is refined at most N - 1 times.
Isomorphic(s, t) == Unfold(s, t, N)

\* C7: when the loop has exited, two participants have the same final digest
\* iff their unfoldings are isomorphic, and the commit gives two participants
\* the same leader exactly when their final digests are the same.
C7_SameDigestIffIsomorphic ==
  /\ pc = "commit" =>
       \A s, t \in Participants : s # t =>
         (FinalDigest(s) = FinalDigest(t)) <=> Isomorphic(s, t)
  /\ Committed =>
       \A s, t \in Participants : s # t =>
         (leader[s] # NULL /\ leader[s] = leader[t])
           <=> (FinalDigest(s) = FinalDigest(t))

\* The loop has exited with classes that propagation split (s, u) and classes
\* it kept (s, t).
C7_Witness ==
  /\ pc = "commit"
  /\ \E s, t, u \in Participants :
       /\ s # t /\ FinalDigest(s) = FinalDigest(t)
       /\ SameInitialDigest(s, u) /\ FinalDigest(s) # FinalDigest(u)

\* C8: the propagation loop terminates: every iteration either leaves the
\* loop or advances the round counter, the count kept from the last check is
\* below N and has grown at every check the loop survived, so the counter
\* stays below CheckInterval * (N + 1) (and below the cap of the model).
C8_PropagationTerminates ==
  pc = "propagate" =>
    /\ num_classes < N
    /\ round >= CheckInterval => num_classes >= (round \div CheckInterval) - 1
    /\ round < CheckInterval * (N + 1)
    /\ round < MaxRounds

\* The loop has left through a check later than the second one.
C8_Witness == pc = "commit" /\ round > 2 * CheckInterval

\* C9: a round never merges two classes: digests that differ before the round
\* differ after it, and the number of distinct digests does not decrease.
C9_PartitionOnlyRefines ==
  [][pc = "propagate" =>
       /\ \A i, j \in DOMAIN sections :
            digests[slot + 1][i] # digests[slot + 1][j] =>
              digests'[slot' + 1][i] # digests'[slot' + 1][j]
       /\ Cardinality({digests[slot + 1][i] : i \in DOMAIN sections}) <=
            Cardinality({digests'[slot' + 1][i] : i \in DOMAIN sections})]_vars

\* A round has split a class while other digests already differed.
C9_Witness ==
  /\ pc = "propagate" /\ round >= 1
  /\ Cardinality({digests[(1 - slot) + 1][i] : i \in DOMAIN sections}) >= 2
  /\ Cardinality({digests[(1 - slot) + 1][i] : i \in DOMAIN sections}) <
       Cardinality({digests[slot + 1][i] : i \in DOMAIN sections})

\* What relocation k of slot s refers to once the leaders are committed.
Resolve(t) == IF leader[t] # NULL THEN leader[t] ELSE t
RedirectedTarget(s, k) ==
  LET isec == isecs[s]
      rel == isec.rels[k]
      y == rel.r_sym
      ref == isec.rel_fragments[RefIdx(isec, k)]
  IN << rel.r_offset, rel.r_type, rel.r_addend,
        IF isec.has_fragments[k] THEN <<"fragment", ref.addend, ref.data>>
        ELSE IF HasFrag(y) THEN <<"fragment", SymValue(y), SymFragData(y)>>
        ELSE IF SymSection(isecs, y) = NULL THEN <<"unresolved", SymValue(y), <<>>>>
        ELSE <<"section", SymValue(y), <<Resolve(SymSection(isecs, y))>>>> >>

\* C10: a section folded into another leader has the leader's bytes, as many
\* relocations as the leader and, relocation by relocation, the same target
\* after redirection.
C10_FoldedEqualsLeader ==
  Committed =>
    \A s \in Slots : Folded(s) =>
      /\ isecs[s].contents = isecs[leader[s]].contents
      /\ Len(isecs[s].rels) = Len(isecs[leader[s]].rels)
      /\ \A k \in 1..Len(isecs[s].rels) :
           RedirectedTarget(s, k) = RedirectedTarget(leader[s], k)

\* A folded section with relocations, one of them to a section that was
\* itself folded, and a symbol that was redirected to the leader.
C10_Witness ==
  /\ Finished
  /\ \E s \in Slots :
       /\ Folded(s) /\ isecs[s].rels # <<>>
       /\ sym_isec[s] = leader[s]
       /\ \E k \in 1..Len(isecs[s].rels) :
            LET y == isecs[s].rels[k].r_sym
            IN SymSection(isecs, y) # NULL /\ Folded(SymSection(isecs, y))

\* ------------------------------------------------------------ the second run
InSecondRun == first # <<>>
Alive(s) == Present(s) /\ ~is_dead[s]

\* C11: a second run of icf_sections on the graph the first run left folds
\* nothing: the leaves still in the files are pairwise structurally different,
\* the final digests of the participants are pairwise different, no leader
\* changes to another section, no symbol is redirected and no section is
\* marked dead.
C11_SecondRunFoldsNothing ==
  InSecondRun =>
    /\ \A s, t \in Slots :
         Alive(s) /\ Alive(t) /\ Leaf(s) /\ Leaf(t) /\ s # t => ~LeafEq(s, t)
    /\ pc \in {"commit", "print", "redirect", "done"} =>
         \A i, j \in DOMAIN sections :
           i # j => digests[slot + 1][i] # digests[slot + 1][j]
    /\ \A s \in Slots : leader[s] # first[1].leader[s] => leader[s] = s
    /\ sym_isec = first[1].sym_isec
    /\ is_dead = first[1].is_dead

\* ------------------------------------------------------- relocation order
\* s and t agree in everything the digest reads but the relocations.
SameButRels(s, t) ==
  /\ isecs[s].contents = isecs[t].contents
  /\ isecs[s].sh_flags = isecs[t].sh_flags
  /\ Len(isecs[s].fdes) = Len(isecs[t].fdes)
  /\ \A k \in 1..Len(isecs[s].fdes) :
       /\ FdeTail(isecs[s].fdes[k]) = FdeTail(isecs[t].fdes[k])
       /\ isecs[s].fdes[k].rels = isecs[t].fdes[k].rels
  /\ isecs[s].has_fragments = isecs[t].has_fragments
  /\ isecs[s].rel_fragments = isecs[t].rel_fragments

\* The relocations of t are those of s in another order.
Reordered(s, t) ==
  LET a == isecs[s].rels
      b == isecs[t].rels
  IN /\ Len(a) = Len(b)
     /\ a # b
     /\ \A r \in {a[k] : k \in 1..Len(a)} \cup {b[k] : k \in 1..Len(b)} :
          Cardinality({k \in 1..Len(a) : a[k] = r}) =
            Cardinality({k \in 1..Len(b) : b[k] = r})

SameLeader(s, t) == leader[s] # NULL /\ leader[s] = leader[t]

SameTargets(s, t) ==
  \A k \in 1..Len(isecs[s].rels) : RedirectedTarget(s, k) = RedirectedTarget(t, k)

FoldedInto(l) == {s \in Slots : Present(s) /\ Folded(s) /\ leader[s] = l}

\* The sum over the leaders L of content size times number of folded sections.
RECURSIVE ClaimedSaving(_)
ClaimedSaving(L) ==
  IF L = {} THEN 0
  ELSE LET l == CHOOSE x \in L : TRUE
       IN Len(isecs[l].contents) * Cardinality(FoldedInto(l))
          + ClaimedSaving(L \ {l})

\* C13: when print_icf_sections is enabled, the total it reports is the sum,
\* over the leaders with a non-empty folded set, of the leader's content size
\* times the number of sections folded into it, and the sections it lists as
\* removed are exactly the sections whose leader is a different section.
C13_ReportCountsFoldedMembers ==
  report # <<>> =>
    /\ report[1].removed = {s \in Slots : Present(s) /\ Folded(s)}
    /\ report[1].selected = {l \in Slots : FoldedInto(l) # {}}
    /\ report[1].saved_bytes =
         ClaimedSaving({l \in Slots : FoldedInto(l) # {}})

\* A report over a folded leaf and a folded participant, one leader having two
\* sections folded into it.
C13_Witness ==
  /\ report # <<>>
  /\ \E s \in report[1].removed : Leaf(s)
  /\ \E s \in report[1].removed : Participant(s)
  /\ \E l \in report[1].selected : Cardinality(FoldedInto(l)) >= 2
  /\ report[1].saved_bytes > 0

\* ------------------------------------------------- tag-5 references
\* Symbol y is fingerprinted with tag 5: it resolves to a participant.
Tag5(y) == ~HasFrag(y) /\ sym_isec[y] # NULL /\ Participant(sym_isec[y])

\* The section relocations of s that are fingerprinted with tag 5.
Tag5Rels(s) ==
  {j \in 1..Len(isecs[s].rels) :
     ~isecs[s].has_fragments[j] /\ Tag5(isecs[s].rels[j].r_sym)}

\* The FDE relocations after the first of s that are fingerprinted with tag 5.
Tag5FdeRels(s) ==
  {p \in (1..Len(isecs[s].fdes)) \X (2..2) :
     /\ p[2] <= Len(isecs[s].fdes[p[1]].rels)
     /\ Tag5(isecs[s].fdes[p[1]].rels[p[2]].sym)}

\* The referents of the tag-5 references of s.
Tag5Referents(s) ==
  {sym_isec[isecs[s].rels[j].r_sym] : j \in Tag5Rels(s)}
    \cup {sym_isec[isecs[s].fdes[p[1]].rels[p[2]].sym] : p \in Tag5FdeRels(s)}

\* The edges the edge builder emitted for sections[i].
EmittedEdges(i) ==
  LET begin == edge_indices[i]
      end == IF i + 1 = N THEN Cardinality(DOMAIN edges) ELSE edge_indices[i + 1]
  IN {edges[e] : e \in begin..(end - 1)}

\* C14: every tag-5 reference of a participant, from a section relocation or
\* from an FDE relocation after the first, has an edge to its referent, and
\* two participants whose tag-5 referents end in different classes never
\* share a final digest.
C14_Tag5ReferentsAreEdges ==
  /\ pc \in {"propagate", "commit"} =>
       \A i \in DOMAIN sections :
         \A t \in Tag5Referents(sections[i]) : icf_idx[t] \in EmittedEdges(i)
  /\ pc = "commit" =>
       \A s, t \in Participants : FinalDigest(s) = FinalDigest(t) =>
         /\ \A j \in Tag5Rels(s) \cap Tag5Rels(t) :
              FinalDigest(sym_isec[isecs[s].rels[j].r_sym])
                = FinalDigest(sym_isec[isecs[t].rels[j].r_sym])
         /\ \A p \in Tag5FdeRels(s) \cap Tag5FdeRels(t) :
              FinalDigest(sym_isec[isecs[s].fdes[p[1]].rels[p[2]].sym])
                = FinalDigest(sym_isec[isecs[t].fdes[p[1]].rels[p[2]].sym])

\* ------------------------------------------------------- the fixed point
\* The digest vector after k further rounds on d.
RECURSIVE FurtherRounds(_, _)
FurtherRounds(d, k) == IF k = 0 THEN d ELSE FurtherRounds(propagate(d), k - 1)

\* No two participants that share a digest in d have different ones in e.
NoneSeparated(d, e) ==
  \A i, j \in DOMAIN d : d[i] = d[j] => e[i] = e[j]

\* C15: when the loop has exited, at a check that is not the first and with
\* num_classes one less than the number of classes, no further number of
\* propagation rounds separates two participants that share a digest.
C15_ExitIsFixedPoint ==
  pc = "commit" =>
    LET d == digests[slot + 1] IN
      /\ round >= 2 * CheckInterval - 1
      /\ num_classes = Cardinality({d[i] : i \in DOMAIN d}) - 1
      /\ \A k \in 1..N : NoneSeparated(d, FurtherRounds(d, k))

\* The loop has exited with a class of two participants and a class apart
\* from it.
C15_Witness ==
  /\ pc = "commit"
  /\ LET d == digests[slot + 1] IN
       /\ \E i, j \in DOMAIN d : i # j /\ d[i] = d[j]
       /\ \E i, j \in DOMAIN d : d[i] # d[j]
       /\ edges # <<>>

\* ------------------------------------------------------ double buffering
\* C16: within a round every worker reads only the current slot and writes
\* only element i of the other slot for its own index i, no element read in
\* the round was written in the round, the slot is flipped only after all
\* workers of the round have finished, and the vector the round produced is
\* propagate of the current one whatever the order of the workers.
C16_RoundIsDoubleBuffered ==
  [][/\ pc = "propagate" =>
          /\ pw.read \cap pw.written = {}
          /\ \A r \in pw.read : r[1] = slot
          /\ \A w \in pw.written : w[1] = 1 - slot /\ w[2] \in pw.done
          /\ \A i \in pw.done :
               digests[(1 - slot) + 1][i] = propagate(digests[slot + 1])[i]
     /\ \A i \in pw'.done \ pw.done :
          /\ pw'.written \ pw.written = {<<1 - slot, i>>}
          /\ slot' = slot
          /\ \A j \in DOMAIN sections :
               j # i => digests'[(1 - slot) + 1][j] = digests[(1 - slot) + 1][j]
          /\ digests'[slot + 1] = digests[slot + 1]
     /\ slot' # slot =>
          /\ pw.done = DOMAIN sections
          /\ digests[(1 - slot) + 1] = propagate(digests[slot + 1])
          /\ digests' = digests]_vars

\* In a round after the first, a worker has finished that read the digest of
\* another section whose worker has finished too, and a third has not.
C16_Witness ==
  /\ pc = "propagate"
  /\ round > 0
  /\ pw.done # DOMAIN sections
  /\ \E i, j \in pw.done : i # j /\ <<slot, j>> \in WorkerReads(i)

\* ------------------------------------------------------ writers per region
\* The workers (one per file) of the leaf tagging, leaf leader and icf_idx
\* regions that write the fields of section s.
FileWriters(s) == {f \in Files : s \in FileSlots(f)}

\* The class boundary of the run of sorted[k]: the first index of the run.
RunStart(sorted, digest, k) ==
  CHOOSE i \in 0..k :
    /\ i = 0 \/ digest[icf_idx[sorted[i - 1]]] # digest[icf_idx[sorted[i]]]
    /\ \A j \in (i + 1)..k :
         digest[icf_idx[sorted[i]]] = digest[icf_idx[sorted[j]]]

\* C17: in the per-file regions no section is written by the workers of two
\* files, and in the class-commit scan the leader of every participant is
\* written by exactly one worker, the one whose index is the class boundary
\* of the participant's run.
C17_ExactlyOneWriter ==
  /\ \A s \in Slots : Present(s) => Cardinality(FileWriters(s)) = 1
  /\ pc = "commit" =>
       \A ord \in HashOrders :
         LET digest == digests[slot + 1]
             sorted == SortedSections(ord, digest)
         IN \A k \in DOMAIN sorted :
              CommitWriters(sorted, digest, k) = {RunStart(sorted, digest, k)}

\* ------------------------------------------------------------ leaf groups
\* Equal contents, equal FDE count and, FDE by FDE, equal length and equal
\* bytes from offset 8 on.
StructurallyEqual(s, t) ==
  /\ Len(isecs[s].contents) = Len(isecs[t].contents)
  /\ \A b \in 1..Len(isecs[s].contents) : isecs[s].contents[b] = isecs[t].contents[b]
  /\ Len(isecs[s].fdes) = Len(isecs[t].fdes)
  /\ \A k \in 1..Len(isecs[s].fdes) :
       /\ Len(isecs[s].fdes[k].contents) = Len(isecs[t].fdes[k].contents)
       /\ \A b \in (FdeHeaderLen + 1)..Len(isecs[s].fdes[k].contents) :
            isecs[s].fdes[k].contents[b] = isecs[t].fdes[k].contents[b]

\* C18: after the leaf phase, whatever the interleaving of the insertions,
\* structurally equal leaves have one and the same leader, which is a leaf of
\* their group and its own leader, and leaves that are not structurally equal
\* have different leaders.
C18_LeafGroupsShareOneLeader ==
  LeafPhaseOver =>
    \A s, t \in Slots : Leaf(s) /\ Leaf(t) =>
      IF StructurallyEqual(s, t)
        THEN /\ leader[s] # NULL
             /\ leader[s] = leader[t]
             /\ Leaf(leader[s])
             /\ StructurallyEqual(leader[s], s)
             /\ leader[leader[s]] = leader[s]
        ELSE leader[s] # leader[t]

\* After the leaf phase: a group of leaves whose FDEs differ in their first
\* 8 bytes, led by a member that is not its lowest-priority one (the racing
\* insertions interleaved), and a leaf outside the group.
C18_Witness ==
  /\ LeafPhaseOver
  /\ \E s, t, u \in Slots :
       /\ Leaf(s) /\ Leaf(t) /\ Leaf(u) /\ s # t
       /\ StructurallyEqual(s, t) /\ ~StructurallyEqual(s, u)
       /\ isecs[s].fdes # <<>> /\ isecs[s].fdes # isecs[t].fdes
       /\ leader[s] = leader[t]
       /\ leader[s] # MinPriority(LeafGroup(s))

\* ------------------------------------------------------ symbols at the end
\* The files whose symbol table holds symbol y.
SymbolFiles(y) == {f \in Files : y \in FileSymbolSet(f)}

\* C19: after icf_sections has finished, whatever the interleaving of the
\* per-file redirection workers, the section of every symbol either has no
\* leader or is its own leader.
C19_NoSymbolOnFoldedSection ==
  Finished =>
    \A y \in SymIds :
      sym_isec[y] # NULL => leader[sym_isec[y]] \in {NULL, sym_isec[y]}

\* Finished, after a symbol held by two files was redirected and two symbols
\* of one folded section were.
C19_Witness ==
  /\ Finished
  /\ \E y \in SymIds :
       /\ Cardinality(SymbolFiles(y)) >= 2
       /\ sym_isec[y] # SymSection(isecs, y)
  /\ \E y, z \in SymIds :
       /\ y # z
       /\ SymSection(isecs, y) # NULL
       /\ SymSection(isecs, y) = SymSection(isecs, z)
       /\ sym_isec[y] # SymSection(isecs, y)
       /\ sym_isec[z] # SymSection(isecs, z)

\* ------------------------------------------------------- no participants
\* C20: when there is no propagation participant (N = 0), no loop bound
\* computed as size() - 1 takes an index outside its vector, and at the end
\* the leaf folds are applied and nothing else has changed.
C20_NoParticipantsStaysInBounds ==
  Participants = {} =>
    /\ pc # "ub"
    /\ Finished =>
         /\ \A s \in Slots : Leaf(s) => leader[s] # NULL
         /\ \A s \in Slots : ~Leaf(s) => leader[s] = NULL /\ ~is_dead[s]
====
